---- MODULE Spec2Model ----
(***************************************************************************)
(* Model of scripts/preprocess.py: the conversion of Label Studio tasks     *)
(* into spaCy documents (create_spacy_docs), the greedy train/dev/test      *)
(* split (train_test_dev_split) and the pipeline that chains them (main).   *)
(*                                                                         *)
(* A document is a record [id, ents]; ents is the tuple doc.ents of         *)
(* <<start token, end token (exclusive), label>> spans.                     *)
(* The float sizes and running ratios are rationals <<num, den>>, den > 0.  *)
(***************************************************************************)
EXTENDS Integers, Sequences, FiniteSets, TLC

VARIABLES
    pc,               \* position of the program
    tasks,            \* completed_tasks handed to create_spacy_docs
    ti,               \* number of tasks the loop of create_spacy_docs has consumed
    c_docs,           \* create_spacy_docs: docs
    c_tot_ents,       \* create_spacy_docs: tot_ents
    misaligned,       \* create_spacy_docs: misaligned
    docs,             \* train_test_dev_split: the list object docs (shuffled in place)
    tot_ents,         \* train_test_dev_split: tot_ents
    dev_size,         \* train_test_dev_split: dev_size
    test_size,        \* train_test_dev_split: test_size
    i,                \* number of documents the assignment loop has consumed
    train_docs, dev_docs, test_docs,
    train_count, dev_count, test_count,
    cur_train_ratio, cur_dev_ratio, cur_test_ratio,
    err,              \* the ValueError raised (its kind and what it names), or NoErr
    fs,               \* out_dir on disk: [dir, files]
    run,              \* how many times the caller has called train_test_dev_split
    orig,             \* the documents in the order the caller first passed them
    first             \* the outcome of the first call, once a second call is made

vars == <<pc, tasks, ti, c_docs, c_tot_ents, misaligned, docs, tot_ents, dev_size,
          test_size, i, train_docs, dev_docs, test_docs, train_count, dev_count,
          test_count, cur_train_ratio, cur_dev_ratio, cur_test_ratio, err, fs,
          run, orig, first>>

createVars == <<tasks, ti, c_docs, c_tot_ents, misaligned>>
callerVars == <<run, orig, first>>
inputVars == <<tot_ents, dev_size, test_size>>
partVars == <<train_docs, dev_docs, test_docs, train_count, dev_count, test_count,
              cur_train_ratio, cur_dev_ratio, cur_test_ratio>>

(***************************************************************************)
(* Bounds of the model.                                                     *)
(***************************************************************************)
MaxDocs == 4
MaxEnts == 2
MaxTot == 3
MaxTasks == 3
MaxAnns == 2

\* The sizes the caller may pass (0.0, 0.2, 0.5, 0.8); the code validates nothing.
Sizes == {<<0, 1>>, <<1, 5>>, <<1, 2>>, <<4, 5>>}

NoErr == [kind |-> "none"]
NoFirst == [outcome |-> "none"]
EmptyDisk == [dir |-> FALSE, files |-> <<>>]

(***************************************************************************)
(* Rational arithmetic for the float comparisons.                           *)
(***************************************************************************)
\* mutant of Less: the comparison written <= instead of <
LessOrEqual(a, b) == a[1] * b[2] <= b[1] * a[2]

\* a < b, for a = <<n, d>> and b = <<m, e>> with d, e > 0
Less(a, b) == a[1] * b[2] < b[1] * a[2]

\* the int 0 the running ratios start from
Zero == <<0, 1>>

\* count / tot_ents for tot_ents > 0
Ratio(count, tot) == <<count, tot>>

(***************************************************************************)
(* random.seed(42); random.shuffle(lst).  The permutation CPython's         *)
(* Mersenne Twister and Fisher-Yates loop produce for the seed depends only *)
(* on the length of the list: position k of the shuffled list holds the     *)
(* element that was at position Permutation(seed, n)[k].                    *)
(***************************************************************************)
Seed == 42

Permutation(seed, n) ==
    IF seed = 42
    THEN CASE n = 0 -> <<>>
           [] n = 1 -> <<1>>
           [] n = 2 -> <<2, 1>>
           [] n = 3 -> <<2, 1, 3>>
           [] n = 4 -> <<3, 2, 4, 1>>
           [] n = 5 -> <<4, 2, 3, 5, 1>>
           [] n = 6 -> <<4, 2, 3, 5, 1, 6>>
           [] n = 7 -> <<2, 4, 5, 3, 7, 1, 6>>
    ELSE [k \in 1..n |-> k]

Shuffle(lst) ==
    [k \in 1..Len(lst) |-> lst[Permutation(Seed, Len(lst))[k]]]

(***************************************************************************)
(* Documents.                                                               *)
(***************************************************************************)
\* len(doc.ents)
NumEntities(doc) == Len(doc.ents)

\* a document with k entities, for a direct call of the splitter
MkDoc(id, k) == [id |-> id, ents |-> [j \in 1..k |-> <<j, j + 1, "X">>]]

RECURSIVE SumEnts(_)
SumEnts(ds) == IF ds = <<>> THEN 0 ELSE NumEntities(Head(ds)) + SumEnts(Tail(ds))

(***************************************************************************)
(* train_test_dev_split                                                     *)
(***************************************************************************)
\* lines 110-119: the locals, then the seeded in-place shuffle
SplitStart ==
    /\ pc = "split"
    /\ train_docs' = <<>> /\ dev_docs' = <<>> /\ test_docs' = <<>>
    /\ train_count' = 0 /\ dev_count' = 0 /\ test_count' = 0
    /\ cur_train_ratio' = Zero /\ cur_dev_ratio' = Zero /\ cur_test_ratio' = Zero
    /\ docs' = Shuffle(docs)
    /\ i' = 0
    /\ pc' = "loop"
    /\ UNCHANGED <<createVars, callerVars, inputVars, err, fs>>

\* mutant of DevOpen: the dev ratio compared with the other size
DevOpenWrongSize == Less(cur_dev_ratio, test_size)

\* line 124
DevOpen == Less(cur_dev_ratio, dev_size)

\* line 128
TestOpen == Less(cur_test_ratio, test_size)

\* lines 121-135: one iteration of the assignment loop.  The document is
\* appended and counted before the division, which raises for tot_ents = 0.
LoopStep ==
    /\ pc = "loop"
    /\ i < Len(docs)
    /\ LET doc == docs[i + 1]
           num_entities == NumEntities(doc)
       IN  IF DevOpen
           THEN /\ dev_docs' = Append(dev_docs, doc)
                /\ dev_count' = dev_count + num_entities
                /\ IF tot_ents = 0
                   THEN /\ pc' = "ZeroDivisionError"
                        /\ UNCHANGED <<cur_dev_ratio, i>>
                   ELSE /\ cur_dev_ratio' = Ratio(dev_count', tot_ents)
                        /\ i' = i + 1
                        /\ pc' = "loop"
                /\ UNCHANGED <<test_docs, test_count, cur_test_ratio,
                               train_docs, train_count, cur_train_ratio>>
           ELSE IF TestOpen
           THEN /\ test_docs' = Append(test_docs, doc)
                /\ test_count' = test_count + num_entities
                /\ IF tot_ents = 0
                   THEN /\ pc' = "ZeroDivisionError"
                        /\ UNCHANGED <<cur_test_ratio, i>>
                   ELSE /\ cur_test_ratio' = Ratio(test_count', tot_ents)
                        /\ i' = i + 1
                        /\ pc' = "loop"
                /\ UNCHANGED <<dev_docs, dev_count, cur_dev_ratio,
                               train_docs, train_count, cur_train_ratio>>
           ELSE /\ train_docs' = Append(train_docs, doc)
                /\ train_count' = train_count + num_entities
                /\ IF tot_ents = 0
                   THEN /\ pc' = "ZeroDivisionError"
                        /\ UNCHANGED <<cur_train_ratio, i>>
                   ELSE /\ cur_train_ratio' = Ratio(train_count', tot_ents)
                        /\ i' = i + 1
                        /\ pc' = "loop"
                /\ UNCHANGED <<dev_docs, dev_count, cur_dev_ratio,
                               test_docs, test_count, cur_test_ratio>>
    /\ UNCHANGED <<createVars, callerVars, inputVars, docs, err, fs>>

\* mutant of LoopEnd: the loop stops one document early
LoopEndEarly ==
    /\ pc = "loop"
    /\ i >= Len(docs) - 1
    /\ pc' = "check"
    /\ UNCHANGED <<createVars, callerVars, inputVars, partVars, docs, i, err, fs>>

\* line 121: the list is exhausted
LoopEnd ==
    /\ pc = "loop"
    /\ i = Len(docs)
    /\ pc' = "check"
    /\ UNCHANGED <<createVars, callerVars, inputVars, partVars, docs, i, err, fs>>

\* mutant of AnyEmpty: all() instead of any()
AllEmpty == \A partition \in {train_docs, test_docs, dev_docs} : Len(partition) = 0

\* line 138
AnyEmpty == \E partition \in {train_docs, test_docs, dev_docs} : Len(partition) = 0

\* mutant of CheckPartitions: out_dir is created before the check
CheckAfterMkdir ==
    /\ pc = "check"
    /\ fs' = [fs EXCEPT !.dir = TRUE]
    /\ IF \E partition \in {train_docs, test_docs, dev_docs} : Len(partition) = 0
       THEN /\ err' = [kind |-> "empty", train |-> Len(train_docs),
                       test |-> Len(test_docs), dev |-> Len(dev_docs)]
            /\ pc' = "ValueError"
       ELSE /\ pc' = "mkdir"
            /\ UNCHANGED err
    /\ UNCHANGED <<createVars, callerVars, inputVars, partVars, docs, i>>

\* lines 137-148: the emptiness check, then the printed summary
CheckPartitions ==
    /\ pc = "check"
    /\ IF AnyEmpty
       THEN /\ err' = [kind |-> "empty", train |-> Len(train_docs),
                       test |-> Len(test_docs), dev |-> Len(dev_docs)]
            /\ pc' = "ValueError"
       ELSE /\ pc' = "mkdir"
            /\ UNCHANGED err
    /\ UNCHANGED <<createVars, callerVars, inputVars, partVars, docs, i, fs>>

\* line 151
Mkdir ==
    /\ pc = "mkdir"
    /\ fs' = [fs EXCEPT !.dir = TRUE]
    /\ pc' = "save_train"
    /\ UNCHANGED <<createVars, callerVars, inputVars, partVars, docs, i, err>>

\* DocBin(docs=ds).to_disk(out_dir / name)
ToDisk(disk, name, ds) ==
    [disk EXCEPT !.files = [n \in (DOMAIN disk.files) \cup {name} |->
                               IF n = name THEN ds ELSE disk.files[n]]]

\* line 154
SaveTrain ==
    /\ pc = "save_train"
    /\ fs' = ToDisk(fs, "train.spacy", train_docs)
    /\ pc' = "save_dev"
    /\ UNCHANGED <<createVars, callerVars, inputVars, partVars, docs, i, err>>

\* line 155
SaveDev ==
    /\ pc = "save_dev"
    /\ fs' = ToDisk(fs, "dev.spacy", dev_docs)
    /\ pc' = "save_test"
    /\ UNCHANGED <<createVars, callerVars, inputVars, partVars, docs, i, err>>

\* line 156, and the return
SaveTest ==
    /\ pc = "save_test"
    /\ fs' = ToDisk(fs, "test.spacy", test_docs)
    /\ pc' = "returned"
    /\ UNCHANGED <<createVars, callerVars, inputVars, partVars, docs, i, err>>

Split ==
    \/ SplitStart \/ LoopStep \/ LoopEnd \/ CheckPartitions
    \/ Mkdir \/ SaveTrain \/ SaveDev \/ SaveTest

(***************************************************************************)
(* A direct call of train_test_dev_split with arbitrary arguments.          *)
(***************************************************************************)
DocLists ==
    UNION {{[j \in 1..n |-> MkDoc(j, f[j])] : f \in [1..n -> 0..MaxEnts]} : n \in 0..MaxDocs}

InitLocals ==
    /\ i = 0
    /\ train_docs = <<>> /\ dev_docs = <<>> /\ test_docs = <<>>
    /\ train_count = 0 /\ dev_count = 0 /\ test_count = 0
    /\ cur_train_ratio = Zero /\ cur_dev_ratio = Zero /\ cur_test_ratio = Zero
    /\ err = NoErr
    /\ fs = EmptyDisk
    /\ run = 1
    /\ first = NoFirst

Init ==
    /\ pc = "split"
    /\ tasks = <<>> /\ ti = 0 /\ c_docs = <<>> /\ c_tot_ents = 0 /\ misaligned = 0
    /\ docs \in DocLists
    /\ orig = docs
    /\ tot_ents \in (0..MaxTot) \cup {SumEnts(docs)}
    /\ dev_size \in Sizes
    /\ test_size \in Sizes
    /\ InitLocals

Next == Split

Spec == Init /\ [][Next]_vars

(***************************************************************************)
(* The caller calls train_test_dev_split a second time, either on the list  *)
(* object the first call was given (which that call shuffled in place) or   *)
(* on a new list holding the same documents in the original order.          *)
(***************************************************************************)
Terminated == pc \in {"returned", "ValueError", "ZeroDivisionError"}

CallAgain ==
    /\ Terminated
    /\ run = 1
    /\ run' = 2
    /\ docs' \in {docs, orig}
    /\ first' = [outcome |-> pc, train |-> train_docs, dev |-> dev_docs,
                 test |-> test_docs, same_object |-> (docs' = docs)]
    /\ UNCHANGED orig
    /\ err' = NoErr
    /\ pc' = "split"
    /\ UNCHANGED <<createVars, inputVars, partVars, i, fs>>

NextTwice == Split \/ CallAgain

SpecTwice == Init /\ [][NextTwice]_vars

(***************************************************************************)
(* create_spacy_docs.  A task is [text, completions]; a completion is       *)
(* [result, was_cancelled], was_cancelled telling whether the dictionary    *)
(* has the key; result is the tuple of annotations <<start, end, label>>    *)
(* (lines 63-67 only re-pack them).                                         *)
(***************************************************************************)
\* nlp(raw_text), line 69: the tokens of the text with their character offsets
Tokenize(raw_text) ==
    IF raw_text = "ab cd ef"
    THEN <<[idx |-> 0, len |-> 2], [idx |-> 3, len |-> 2], [idx |-> 6, len |-> 2]>>
    ELSE <<>>

\* starts.get(c) and ends.get(c) of offsets_to_biluo_tags; 0 stands for None
StartToken(tokens, c) ==
    IF \E t \in DOMAIN tokens : tokens[t].idx = c
    THEN CHOOSE t \in DOMAIN tokens : tokens[t].idx = c
    ELSE 0

EndToken(tokens, c) ==
    IF \E t \in DOMAIN tokens : tokens[t].idx + tokens[t].len = c
    THEN CHOOSE t \in DOMAIN tokens : tokens[t].idx + tokens[t].len = c
    ELSE 0

\* range(start_char, end_char)
Chars(ent) == ent[1]..(ent[2] - 1)

\* the tags one aligned entity writes into biluo
TagEntity(biluo, st, en, label) ==
    [t \in DOMAIN biluo |->
        IF st = en /\ t = st THEN <<"U", label>>
        ELSE IF st /= en /\ t = st THEN <<"B", label>>
        ELSE IF st /= en /\ t = en THEN <<"L", label>>
        ELSE IF st < t /\ t < en THEN <<"I", label>>
        ELSE biluo[t]]

\* The first loop of offsets_to_biluo_tags, from entity k on: a character
\* that already belongs to an entity raises ValueError (E103, conflicting
\* doc.ents); an entity whose two ends are token boundaries is tagged.
RECURSIVE TagEntities(_, _, _, _, _)
TagEntities(tokens, entities, k, biluo, tokens_in_ents) ==
    IF k > Len(entities)
    THEN [raised |-> FALSE, biluo |-> biluo]
    ELSE LET ent == entities[k]
             st == StartToken(tokens, ent[1])
             en == EndToken(tokens, ent[2])
         IN  IF Chars(ent) \cap tokens_in_ents /= {}
             THEN [raised |-> TRUE, biluo |-> biluo]
             ELSE TagEntities(tokens, entities, k + 1,
                              IF st /= 0 /\ en /= 0
                              THEN TagEntity(biluo, st, en, ent[3])
                              ELSE biluo,
                              tokens_in_ents \cup Chars(ent))

\* offsets_to_biluo_tags(doc, entities), line 71: a token none of whose
\* characters is annotated becomes "O", a token left untagged stays "-".
OffsetsToBiluoTags(tokens, entities) ==
    LET r == TagEntities(tokens, entities, 1, [t \in DOMAIN tokens |-> <<"-">>], {})
        entity_chars == UNION {Chars(entities[k]) : k \in DOMAIN entities}
    IN  IF r.raised
        THEN r
        ELSE [raised |-> FALSE,
              biluo |-> [t \in DOMAIN tokens |->
                            IF (tokens[t].idx..(tokens[t].idx + tokens[t].len - 1))
                                   \cap entity_chars = {}
                            THEN <<"O">>
                            ELSE r.biluo[t]]]

\* tags_to_entities, from token t on: <<label, first token, last token>>,
\* with the empty label for a "-" token
RECURSIVE TagsToEntities(_, _, _)
TagsToEntities(tags, t, start) ==
    IF t > Len(tags) THEN <<>>
    ELSE LET tag == tags[t]
         IN  CASE tag[1] = "-" ->
                    IF start /= 0 THEN TagsToEntities(tags, t + 1, 0)
                    ELSE <<<<"", t, t>>>> \o TagsToEntities(tags, t + 1, 0)
               [] tag[1] = "O" -> TagsToEntities(tags, t + 1, start)
               [] tag[1] = "I" -> TagsToEntities(tags, t + 1, start)
               [] tag[1] = "U" -> <<<<tag[2], t, t>>>> \o TagsToEntities(tags, t + 1, start)
               [] tag[1] = "B" -> TagsToEntities(tags, t + 1, t)
               [] tag[1] = "L" -> <<<<tag[2], start, t>>>> \o TagsToEntities(tags, t + 1, 0)

\* biluo_tags_to_spans(doc, tags), line 73: Span(doc, start, end + 1, label)
BiluoTagsToSpans(tags) ==
    LET offs == TagsToEntities(tags, 1, 0)
    IN  [k \in DOMAIN offs |-> <<offs[k][2], offs[k][3] + 1, offs[k][1]>>]

\* doc.ents after the assignment of line 74: a span with the empty label
\* marks its token as outside any entity
RECURSIVE DocEnts(_)
DocEnts(spans) ==
    IF spans = <<>> THEN <<>>
    ELSE IF Head(spans)[3] = "" THEN DocEnts(Tail(spans))
    ELSE <<Head(spans)>> \o DocEnts(Tail(spans))

\* lines 52-77: one iteration of the loop over completed_tasks
CreateStep ==
    /\ pc = "create"
    /\ ti < Len(tasks)
    /\ LET task == tasks[ti + 1]
           completions == task.completions
       IN  IF Len(completions) = 1 /\ ~completions[1].was_cancelled
           THEN LET annotated_entities == completions[1].result
                    tokens == Tokenize(task.text)
                    tags == OffsetsToBiluoTags(tokens, annotated_entities)
                IN  IF tags.raised
                    THEN /\ pc' = "ValueError"
                         /\ err' = [kind |-> "conflict"]
                         /\ UNCHANGED <<ti, c_docs, c_tot_ents, misaligned>>
                    ELSE LET doc == [id |-> ti + 1,
                                     ents |-> DocEnts(BiluoTagsToSpans(tags.biluo))]
                         IN  /\ c_docs' = Append(c_docs, doc)
                             /\ c_tot_ents' = c_tot_ents + Len(annotated_entities)
                             /\ misaligned' = misaligned
                                    + (Len(annotated_entities) - Len(doc.ents))
                             /\ ti' = ti + 1
                             /\ UNCHANGED <<pc, err>>
           ELSE /\ ti' = ti + 1
                /\ UNCHANGED <<pc, err, c_docs, c_tot_ents, misaligned>>
    /\ UNCHANGED <<tasks, callerVars, inputVars, partVars, docs, i, fs>>

\* lines 79-84 and 163-164: the summary is printed, (docs, tot_ents) is
\* returned to main, which hands both to train_test_dev_split
CreateReturn ==
    /\ pc = "create"
    /\ ti = Len(tasks)
    /\ docs' = c_docs
    /\ orig' = c_docs
    /\ tot_ents' = c_tot_ents
    /\ pc' = "split"
    /\ UNCHANGED <<createVars, run, first, dev_size, test_size, partVars, i, err, fs>>

\* lines 167-168: main prints the ValueError and ends
MainCatch ==
    /\ pc = "ValueError"
    /\ pc' = "printed"
    /\ UNCHANGED <<createVars, callerVars, inputVars, partVars, docs, i, err, fs>>

(***************************************************************************)
(* The tasks main reads from the archive.                                   *)
(***************************************************************************)
Annotations ==
    {<<0, 2, "A">>, <<3, 8, "B">>, <<0, 8, "A">>, <<0, 1, "B">>, <<4, 5, "A">>}

AnnLists == UNION {[1..n -> Annotations] : n \in 0..MaxAnns}

Completions ==
    {[result |-> r, was_cancelled |-> FALSE] : r \in AnnLists}
        \cup {[result |-> r, was_cancelled |-> TRUE] : r \in {<<>>, <<<<0, 2, "A">>>>}}

TaskSet ==
    {[text |-> "ab cd ef", completions |-> <<>>]}
        \cup {[text |-> "ab cd ef", completions |-> <<c>>] : c \in Completions}
        \cup {[text |-> "ab cd ef", completions |-> <<c, c>>] :
                 c \in {d \in Completions : d.result = <<<<0, 2, "A">>>>}}

TaskLists == UNION {[1..n -> TaskSet] : n \in 0..MaxTasks}

InitMain ==
    /\ pc = "create"
    /\ tasks \in TaskLists
    /\ ti = 0 /\ c_docs = <<>> /\ c_tot_ents = 0 /\ misaligned = 0
    /\ docs = <<>> /\ orig = <<>> /\ tot_ents = 0
    /\ dev_size = <<1, 5>>
    /\ test_size = <<1, 5>>
    /\ InitLocals

NextMain == CreateStep \/ CreateReturn \/ Split \/ MainCatch

SpecMain == InitMain /\ [][NextMain]_vars

(***************************************************************************)
(* Properties of train_test_dev_split, checked under Spec.                  *)
(***************************************************************************)
\* the assignment loop has run to its end
LoopFinished ==
    \/ pc \in {"check", "mkdir", "save_train", "save_dev", "save_test", "returned"}
    \/ pc \in {"ValueError", "printed"} /\ err.kind = "empty"

Occurrences(d, s) == Cardinality({k \in DOMAIN s : s[k] = d})

\* C1: once the assignment loop has finished, every input document is in
\* exactly one of train_docs, dev_docs, test_docs, exactly once, and the three
\* partition sizes sum to the number of input documents.
C1_PartitionCoverage ==
    LoopFinished =>
        /\ Len(train_docs) + Len(dev_docs) + Len(test_docs) = Len(orig)
        /\ \A k \in DOMAIN orig :
              Occurrences(orig[k], train_docs) + Occurrences(orig[k], dev_docs)
                  + Occurrences(orig[k], test_docs) = 1

C1_Witness ==
    /\ pc = "returned"
    /\ Len(orig) >= 4
    /\ docs /= orig
    /\ Len(dev_docs) >= 2

\* C2: the call fails only with the partition-emptiness ValueError, and it
\* does so exactly when a partition is empty after the assignment loop: no
\* other error is raised and no call goes on to persist an empty partition.
C2_OnlyEmptinessError ==
    /\ pc /= "ZeroDivisionError"
    /\ pc = "ValueError" =>
          (err.kind = "empty" /\ 0 \in {Len(train_docs), Len(dev_docs), Len(test_docs)})
    /\ pc \in {"mkdir", "save_train", "save_dev", "save_test", "returned"} =>
          0 \notin {Len(train_docs), Len(dev_docs), Len(test_docs)}

\* whether the running ratio cur has reached the target size
Reached(cur, size) == cur[1] * size[2] >= size[1] * cur[2]

\* the documents the loop has assigned so far
Assigned == Len(dev_docs) + Len(test_docs) + Len(train_docs)

C4_Order ==
    pc \notin {"create", "split"} /\ err.kind /= "conflict" =>
        dev_docs \o test_docs \o train_docs = SubSeq(docs, 1, Assigned)

C4_Step ==
    pc = "loop" =>
        /\ Reached(cur_dev_ratio, dev_size) =>
              (dev_docs' = dev_docs /\ Reached(cur_dev_ratio', dev_size))
        /\ Reached(cur_test_ratio, test_size) =>
              (test_docs' = test_docs /\ Reached(cur_test_ratio', test_size))
        /\ test_docs' /= test_docs => Reached(cur_dev_ratio, dev_size)
        /\ train_docs' /= train_docs =>
              (Reached(cur_dev_ratio, dev_size) /\ Reached(cur_test_ratio, test_size))

\* C4: during the pass a partition whose running ratio has reached its size
\* receives no further document and stays reached, test receives a document
\* only when dev has reached its size, train only when dev and test both
\* have; so in shuffled order the dev documents come first, then the test
\* documents, then the train documents.
C4_FillOrder == []C4_Order /\ [][C4_Step]_vars

C4_Witness ==
    /\ pc = "returned"
    /\ Len(dev_docs) >= 2
    /\ dev_size /= test_size

\* C8: a call that fails with the partition-emptiness error has written
\* nothing (no container, no output directory); a call that returns has
\* written the three partitions, each of them non-empty.
C8_NoPartialSuccess ==
    /\ (pc = "ValueError" /\ err.kind = "empty") => fs = EmptyDisk
    /\ pc = "returned" =>
          /\ fs.dir
          /\ DOMAIN fs.files = {"train.spacy", "dev.spacy", "test.spacy"}
          /\ fs.files["train.spacy"] = train_docs /\ train_docs /= <<>>
          /\ fs.files["dev.spacy"] = dev_docs /\ dev_docs /= <<>>
          /\ fs.files["test.spacy"] = test_docs /\ test_docs /= <<>>

C8_Witness ==
    /\ pc = "ValueError"
    /\ err.kind = "empty"
    /\ Len(dev_docs) >= 1
    /\ Len(test_docs) >= 1
    /\ fs = EmptyDisk

\* one document holds all tot_ents > 0 entities, the others hold none
SingleHolder ==
    /\ tot_ents > 0
    /\ \E k \in DOMAIN docs :
          /\ NumEntities(docs[k]) = tot_ents
          /\ \A j \in DOMAIN docs \ {k} : NumEntities(docs[j]) = 0

\* the position of that document in docs
HolderPos == CHOOSE k \in DOMAIN docs : NumEntities(docs[k]) = tot_ents

\* a size in (0, 1)
NonTrivial(size) == 0 < size[1] /\ size[1] < size[2]

C9_Case ==
    /\ SingleHolder
    /\ NonTrivial(dev_size)
    /\ NonTrivial(test_size)
    /\ pc \in {"returned", "ValueError", "ZeroDivisionError"}

\* C9 as stated: with a single document holding all the entities and both
\* sizes in (0,1) the call fails with the partition-emptiness error, which
\* reports 0 documents for test and for train.
C9_TestAndTrainEmpty ==
    C9_Case => (pc = "ValueError" /\ err.kind = "empty" /\ err.test = 0 /\ err.train = 0)

\* C9 as amended: in that case the call fails with the partition-emptiness
\* error, which reports 0 documents for train; dev holds the documents up to
\* and including the entity-holding one, test the documents that follow it
\* in shuffled order, so test is reported empty exactly when the
\* entity-holding document comes last.
C9_TrainEmpty ==
    C9_Case =>
        /\ pc = "ValueError"
        /\ err.kind = "empty"
        /\ err.train = 0
        /\ err.dev = HolderPos
        /\ err.test = Len(docs) - HolderPos
        /\ (err.test = 0 <=> HolderPos = Len(docs))

C9_Witness ==
    /\ C9_Case
    /\ pc = "ValueError"
    /\ err.kind = "empty"
    /\ err.test >= 2
    /\ err.dev >= 2

Last(s) == s[Len(s)]

\* C10: with tot_ents > 0, at every point of the assignment loop the entity
\* count of dev without the last document assigned to dev is strictly below
\* dev_size * tot_ents, and likewise for test.
C10_OvershootOneDoc ==
    (pc \notin {"create", "split"} /\ tot_ents > 0) =>
        /\ dev_docs /= <<>> =>
              (dev_count - NumEntities(Last(dev_docs))) * dev_size[2]
                  < dev_size[1] * tot_ents
        /\ test_docs /= <<>> =>
              (test_count - NumEntities(Last(test_docs))) * test_size[2]
                  < test_size[1] * tot_ents

C10_Witness ==
    /\ pc = "loop"
    /\ tot_ents > 0
    /\ dev_count * dev_size[2] > dev_size[1] * tot_ents
    /\ test_count * test_size[2] > test_size[1] * tot_ents
    /\ Len(dev_docs) >= 2

(***************************************************************************)
(* Two calls, checked under SpecTwice.                                      *)
(***************************************************************************)
\* C3: a second call with the same documents, sizes and seed ends as the
\* first one did, with the same documents in the same order in every
\* partition, also when it is given the list object of the first call.
C3_SecondRunIdentical ==
    (run = 2 /\ Terminated) =>
        /\ pc = first.outcome
        /\ train_docs = first.train
        /\ dev_docs = first.dev
        /\ test_docs = first.test

(***************************************************************************)
(* Properties of create_spacy_docs and main, checked under SpecMain.        *)
(***************************************************************************)
\* train_test_dev_split has been entered
InSplit ==
    \/ pc \in {"split", "loop", "check", "mkdir", "save_train", "save_dev",
               "save_test", "returned", "ZeroDivisionError"}
    \/ pc \in {"ValueError", "printed"} /\ err.kind = "empty"

\* C5: the tot_ents main hands to the splitter is the sum of the entity
\* counts of the documents it hands to it, so that after the assignment loop
\* train_count + dev_count + test_count = tot_ents.
C5_TotalIsSum ==
    /\ InSplit => tot_ents = SumEnts(docs)
    /\ (InSplit /\ LoopFinished) => train_count + dev_count + test_count = tot_ents

\* exactly one completion, without the was_cancelled key
OneLiveCompletion(task) ==
    /\ Len(task.completions) = 1
    /\ ~task.completions[1].was_cancelled

RECURSIVE LiveIndices(_, _)
LiveIndices(ts, k) ==
    IF k > Len(ts) THEN <<>>
    ELSE IF OneLiveCompletion(ts[k]) THEN <<k>> \o LiveIndices(ts, k + 1)
    ELSE LiveIndices(ts, k + 1)

RECURSIVE AnnotationCount(_, _)
AnnotationCount(ts, k) ==
    IF k > Len(ts) THEN 0
    ELSE (IF OneLiveCompletion(ts[k]) THEN Len(ts[k].completions[1].result) ELSE 0)
             + AnnotationCount(ts, k + 1)

\* C6: when create_spacy_docs is over it has produced one document for each
\* task with exactly one, uncancelled completion, in the order of the tasks,
\* and none for any other task; the other tasks add nothing to the counters.
C6_OneDocPerLiveTask ==
    pc /= "create" =>
        /\ [k \in DOMAIN c_docs |-> c_docs[k].id] = LiveIndices(tasks, 1)
        /\ c_tot_ents = AnnotationCount(tasks, 1)

\* both ends of the annotation are token boundaries
OnBoundaries(tokens, a) ==
    /\ \E t \in DOMAIN tokens : tokens[t].idx = a[1]
    /\ \E t \in DOMAIN tokens : tokens[t].idx + tokens[t].len = a[2]

\* the character span and label of an entity of a document
CharSpan(tokens, e) ==
    <<tokens[e[1]].idx, tokens[e[2] - 1].idx + tokens[e[2] - 1].len, e[3]>>

EntitySpans(tokens, doc) == {CharSpan(tokens, doc.ents[k]) : k \in DOMAIN doc.ents}

RECURSIVE OffBoundaryCount(_, _, _)
OffBoundaryCount(ts, k, upto) ==
    IF k > upto THEN 0
    ELSE (IF OneLiveCompletion(ts[k])
          THEN Cardinality({n \in DOMAIN ts[k].completions[1].result :
                   ~OnBoundaries(Tokenize(ts[k].text), ts[k].completions[1].result[n])})
          ELSE 0) + OffBoundaryCount(ts, k + 1, upto)

\* C7: an annotation on token boundaries yields an entity with its boundaries
\* and label, an annotation off them yields none and adds one to misaligned,
\* and the alignment raises for no annotation list.
C7_AlignmentNeverRaises ==
    /\ \A k \in DOMAIN c_docs :
          LET task == tasks[c_docs[k].id]
              tokens == Tokenize(task.text)
              result == task.completions[1].result
          IN  \A n \in DOMAIN result :
                  OnBoundaries(tokens, result[n])
                      <=> result[n] \in EntitySpans(tokens, c_docs[k])
    /\ misaligned = OffBoundaryCount(tasks, 1, ti)
    /\ err.kind /= "conflict"

====
